---------------------------- MODULE Spec2Model ----------------------------
(***************************************************************************)
(* Model of wsgate/btexception.hpp: the tracing exception family           *)
(* (tracing::exception, runtime_error, logic_error and their leaves) and   *)
(* the three backtrace generators dummy_tracer, bfd_tracer, dwarf_tracer.  *)
(*                                                                         *)
(* The header holds the class layouts, the inline members and the          *)
(* declarations; the out-of-line bodies (btexception.cpp) are modelled     *)
(* from the design document and are marked as such where they are defined. *)
(***************************************************************************)
EXTENDS Integers, Sequences, FiniteSets, TLC

VARIABLES
    useBFD,     \* USE_BFD is defined in this build
    useDWARF,   \* USE_DWARF is defined in this build
    objs,       \* the exception instances: Ids -> Dead or an instance record
    obs,        \* per instance: its constructor argument and what where() last gave
    ret,        \* the C string the last what() handed out, while its instance lives
    lastCopy,   \* <<original, copy>> of the last copy construction, both untouched since
    index,      \* the process-wide debug-information index: "unbuilt", "building", "built"
    builds,     \* how many times the index was built
    pc,         \* per thread: its position inside where()/trace()
    mutex,      \* holder of the index initialisation lock, or NoThread
    texc,       \* per thread: the tracer of the exception it threw
    earlyRead   \* some resolution read the index before its build completed

vars == <<useBFD, useDWARF, objs, obs, ret, lastCopy, index, builds, pc, mutex, texc, earlyRead>>

-----------------------------------------------------------------------------
(* Bounds of the model *)

\* deepest call stack at a throw site
MaxDepth == 3
\* largest skip value handed to trace() in the statements about trace()
MaxSkip == 3
\* the frame count exception::exception() hands to its tracer
DefaultMaxFrames == 2
\* the skip count exception::where() hands to trace()
WhereSkip == 1
\* threads that throw and query concurrently
NThreads == 2

Ids == {"e1", "e2"}
Threads == 1..NThreads
NoThread == 0

Dead == [kind |-> "dead"]
NoRet == [id |-> "none"]
NoCopy == <<>>
NoText == << <<"no call yet">> >>

Min(a, b) == IF a <= b THEN a ELSE b
Max(a, b) == IF a >= b THEN a ELSE b

-----------------------------------------------------------------------------
(* The class hierarchy *)

RuntimeKinds == {"runtime_error", "range_error", "overflow_error", "underflow_error"}
LogicKinds == {"logic_error", "domain_error", "invalid_argument", "length_error", "out_of_range"}
Kinds == {"exception"} \cup RuntimeKinds \cup LogicKinds

\* the messages a throw site passes
Msgs == {"bad size", "io failed"}
\* what std::exception::what() answers for the base class, which holds no message
BaseWhat == "std::exception"

\* The call stack at a throw site d calls deep, innermost first: the return
\* address of the call at depth k is k.
RECURSIVE StackAt(_)
StackAt(d) == IF d = 0 THEN <<>> ELSE <<d>> \o StackAt(d - 1)

-----------------------------------------------------------------------------
(* Backend selection: the member `tracer` of class exception *)

TracerTypeDwarfFirst(bfd, dwarf) ==
    IF dwarf THEN "dwarf_tracer" ELSE IF bfd THEN "bfd_tracer" ELSE "dummy_tracer"

TracerType(bfd, dwarf) ==
    IF bfd THEN "bfd_tracer" ELSE IF dwarf THEN "dwarf_tracer" ELSE "dummy_tracer"

Backend == TracerType(useBFD, useDWARF)

-----------------------------------------------------------------------------
(* dummy_tracer *)

\* dummy_tracer(int) { } : an empty class, the argument is dropped
dummy_tracer_ctor(n) == [type |-> "dummy_tracer"]

dummy_tracer_trace_skipping(self, skip) ==
    IF skip >= 1 THEN <<>> ELSE << <<"Tracing disabled">> >>

\* std::string trace(int) const { return "Tracing disabled"; }
dummy_tracer_trace(self, skip) == << <<"Tracing disabled">> >>

-----------------------------------------------------------------------------
(* bfd_tracer and dwarf_tracer: fields maxframes, frames, tbuf *)

\* backtrace(tbuf, maxframes): up to maxframes return addresses, innermost first
capture(type, _maxframes, stack) ==
    LET n == IF _maxframes <= 0 THEN 0 ELSE Min(_maxframes, Len(stack))
    IN  [type |-> type, maxframes |-> _maxframes, frames |-> n,
         tbuf |-> SubSeq(stack, 1, n)]

bfd_tracer_ctor(_maxframes, stack) == capture("bfd_tracer", _maxframes, stack)

dwarf_tracer_ctor(_maxframes, stack) == capture("dwarf_tracer", _maxframes, stack)

\* copy constructors: the copy gets its own frame array with the same addresses
bfd_tracer_copy(other) ==
    [type |-> "bfd_tracer", maxframes |-> other.maxframes, frames |-> other.frames,
     tbuf |-> other.tbuf]

dwarf_tracer_copy(other) ==
    [type |-> "dwarf_tracer", maxframes |-> other.maxframes, frames |-> other.frames,
     tbuf |-> other.tbuf]

\* dwarf_tracer & operator = (const dwarf_tracer &): public
dwarf_tracer_assign(self, other) ==
    [type |-> "dwarf_tracer", maxframes |-> other.maxframes, frames |-> other.frames,
     tbuf |-> other.tbuf]

\* What the binary's debug information knows of an address.
Symbols(addr) ==
    CASE addr % 3 = 1 -> [fn |-> TRUE, line |-> TRUE]
      [] addr % 3 = 2 -> [fn |-> TRUE, line |-> FALSE]
      [] OTHER        -> [fn |-> FALSE, line |-> FALSE]

\* One line of the trace for one frame.
render_frame(addr) ==
    LET s == Symbols(addr)
    IN  IF s.fn /\ s.line THEN <<"function", "file:line", "0x", addr>>
        ELSE IF s.fn THEN <<"function", "@", "0x", addr>>
        ELSE <<"0x", addr>>

RECURSIVE render_from(_, _, _)
render_from(tbuf, i, frames) ==
    IF i > frames THEN <<>>
    ELSE <<render_frame(tbuf[i])>> \o render_from(tbuf, i + 1, frames)

\* const std::string & trace(int skip) const: one line per frame from skip on
rich_tracer_trace(self, skip) == render_from(self.tbuf, skip + 1, self.frames)

bfd_tracer_trace(self, skip) == rich_tracer_trace(self, skip)

dwarf_tracer_trace(self, skip) == rich_tracer_trace(self, skip)

-----------------------------------------------------------------------------
(* The member `tracer`, whichever class it is in this build *)

tracer_ctor(type, _maxframes, stack) ==
    CASE type = "bfd_tracer"   -> bfd_tracer_ctor(_maxframes, stack)
      [] type = "dwarf_tracer" -> dwarf_tracer_ctor(_maxframes, stack)
      [] OTHER                 -> dummy_tracer_ctor(_maxframes)

tracer_copy(other) ==
    CASE other.type = "bfd_tracer"   -> bfd_tracer_copy(other)
      [] other.type = "dwarf_tracer" -> dwarf_tracer_copy(other)
      [] OTHER                       -> other

tracer_trace(self, skip) ==
    CASE self.type = "bfd_tracer"   -> bfd_tracer_trace(self, skip)
      [] self.type = "dwarf_tracer" -> dwarf_tracer_trace(self, skip)
      [] OTHER                      -> dummy_tracer_trace(self, skip)

\* trace() hands back a std::string by value (dummy_tracer) or a reference to
\* a string that outlives the call (bfd_tracer, dwarf_tracer).
TraceReturnsByValue(type) == type = "dummy_tracer"

\* Is `exception` copy-assignable?  Not with a bfd_tracer member, whose
\* operator= is private; dwarf_tracer declares a public one and dummy_tracer
\* has the implicit one.
TracerAssignable(type) == type # "bfd_tracer"

tracer_assign(self, other) ==
    IF self.type = "dwarf_tracer" THEN dwarf_tracer_assign(self, other) ELSE other

-----------------------------------------------------------------------------
(* class exception and its descendants *)

NoMsg == ""
Uninitialised == [type |-> "uninitialised"]

\* exception::exception() throw(): constructs the member tracer, which
\* captures the stack of the throw site
exception_ctor(stack) ==
    [kind |-> "exception", msg |-> NoMsg,
     tracer |-> tracer_ctor(Backend, DefaultMaxFrames, stack)]

\* explicit runtime_error(const std::string& __arg) : exception(), msg(__arg) { }
runtime_error_ctor(arg, stack) ==
    [exception_ctor(stack) EXCEPT !.kind = "runtime_error", !.msg = arg]

logic_error_ctor_no_base(arg, stack) ==
    [kind |-> "logic_error", msg |-> arg, tracer |-> Uninitialised]

\* explicit logic_error(const std::string& __arg) : _M_msg(__arg) { }
\* The base class is not named in the initializer list, so it is
\* default-initialised: exception::exception() runs first all the same.
logic_error_ctor(arg, stack) ==
    [exception_ctor(stack) EXCEPT !.kind = "logic_error", !.msg = arg]

\* explicit invalid_argument(const std::string& __arg) : logic_error(__arg) { }
invalid_argument_ctor(arg, stack) ==
    [logic_error_ctor(arg, stack) EXCEPT !.kind = "invalid_argument"]

\* the leaves whose constructors are only declared in the header
domain_error_ctor(arg, stack) ==
    [logic_error_ctor(arg, stack) EXCEPT !.kind = "domain_error"]

length_error_ctor(arg, stack) ==
    [logic_error_ctor(arg, stack) EXCEPT !.kind = "length_error"]

out_of_range_ctor(arg, stack) ==
    [logic_error_ctor(arg, stack) EXCEPT !.kind = "out_of_range"]

range_error_ctor(arg, stack) ==
    [runtime_error_ctor(arg, stack) EXCEPT !.kind = "range_error"]

overflow_error_ctor(arg, stack) ==
    [runtime_error_ctor(arg, stack) EXCEPT !.kind = "overflow_error"]

underflow_error_ctor(arg, stack) ==
    [runtime_error_ctor(arg, stack) EXCEPT !.kind = "underflow_error"]

\* `throw kind(arg)` at a throw site with the given stack
construct(kind, arg, stack) ==
    CASE kind = "exception"        -> exception_ctor(stack)
      [] kind = "runtime_error"    -> runtime_error_ctor(arg, stack)
      [] kind = "range_error"      -> range_error_ctor(arg, stack)
      [] kind = "overflow_error"   -> overflow_error_ctor(arg, stack)
      [] kind = "underflow_error"  -> underflow_error_ctor(arg, stack)
      [] kind = "logic_error"      -> logic_error_ctor(arg, stack)
      [] kind = "invalid_argument" -> invalid_argument_ctor(arg, stack)
      [] kind = "domain_error"     -> domain_error_ctor(arg, stack)
      [] kind = "length_error"     -> length_error_ctor(arg, stack)
      [] OTHER                     -> out_of_range_ctor(arg, stack)

\* virtual const char* what() const throw() { return msg.c_str(); }
runtime_error_what(self) == self.msg

\* virtual const char* what() const throw() { return _M_msg.c_str(); }
logic_error_what(self) == self.msg

\* the virtual call e.what()
what(self) ==
    IF self.kind \in RuntimeKinds THEN runtime_error_what(self)
    ELSE IF self.kind \in LogicKinds THEN logic_error_what(self)
    ELSE BaseWhat

\* the implicit copy constructor: base subobject (the tracer), then the message
copy_construct(other) ==
    [kind |-> other.kind, msg |-> other.msg, tracer |-> tracer_copy(other.tracer)]

\* the implicit copy assignment, where the build has one
copy_assign(self, other) ==
    [kind |-> self.kind, msg |-> other.msg,
     tracer |-> tracer_assign(self.tracer, other.tracer)]

\* What a read through a pointer into a destroyed std::string can give: the
\* old bytes, nothing, or other bytes.
DanglingReads == { << <<"Tracing disabled">> >>, <<>>, << <<"?">> >> }

\* const char* exception::where() const throw(): tracer.trace(skip).c_str().
\* The set of texts the caller can read through the returned pointer.
where(self) ==
    IF TraceReturnsByValue(self.tracer.type)
    THEN DanglingReads
    ELSE {tracer_trace(self.tracer, WhereSkip)}

\* the state of the pointer where() returned, once where() has returned
where_ptr(self) ==
    IF TraceReturnsByValue(self.tracer.type) THEN "dangling" ELSE "valid"

UsesIndex(self) == self.tracer.type \in {"bfd_tracer", "dwarf_tracer"}

-----------------------------------------------------------------------------
(* The state machine of one thread of control *)

Live(i) == objs[i] # Dead
NoObs == [arg |-> NoMsg, where |-> NoText, ptr |-> "none"]

Forget(i) ==
    /\ ret' = IF ret.id = i THEN NoRet ELSE ret
    /\ lastCopy' = IF lastCopy # NoCopy /\ i \in {lastCopy[1], lastCopy[2]}
                   THEN NoCopy ELSE lastCopy

Construct(i) ==
    /\ ~Live(i)
    /\ \E kind \in Kinds, arg \in Msgs, d \in 0..MaxDepth :
         /\ kind = "exception" => arg = CHOOSE m \in Msgs : TRUE
         /\ objs' = [objs EXCEPT ![i] = construct(kind, arg, StackAt(d))]
         /\ obs' = [obs EXCEPT ![i] = [NoObs EXCEPT !.arg =
                        IF kind = "exception" THEN NoMsg ELSE arg]]
    /\ UNCHANGED <<useBFD, useDWARF, ret, lastCopy, index, builds, pc, mutex, texc, earlyRead>>

Copy(i, j) ==
    /\ i # j /\ Live(i) /\ ~Live(j)
    /\ objs' = [objs EXCEPT ![j] = copy_construct(objs[i])]
    /\ obs' = [obs EXCEPT ![j] = [NoObs EXCEPT !.arg = objs[i].msg]]
    /\ lastCopy' = <<i, j>>
    /\ UNCHANGED <<useBFD, useDWARF, ret, index, builds, pc, mutex, texc, earlyRead>>

Assign(i, j) ==
    /\ i # j /\ Live(i) /\ Live(j)
    /\ objs[i].kind = objs[j].kind
    /\ TracerAssignable(objs[i].tracer.type)
    /\ objs' = [objs EXCEPT ![i] = copy_assign(objs[i], objs[j])]
    /\ lastCopy' = NoCopy
    /\ UNCHANGED <<useBFD, useDWARF, obs, ret, index, builds, pc, mutex, texc, earlyRead>>

What(i) ==
    /\ Live(i)
    /\ ret' = [id |-> i, text |-> what(objs[i])]
    /\ UNCHANGED <<useBFD, useDWARF, objs, obs, lastCopy, index, builds, pc, mutex, texc, earlyRead>>

Where(i) ==
    /\ Live(i)
    /\ \E t \in where(objs[i]) :
         obs' = [obs EXCEPT ![i].where = t, ![i].ptr = where_ptr(objs[i])]
    /\ IF UsesIndex(objs[i]) /\ index = "unbuilt"
       THEN index' = "built" /\ builds' = builds + 1
       ELSE UNCHANGED <<index, builds>>
    /\ UNCHANGED <<useBFD, useDWARF, objs, ret, lastCopy, pc, mutex, texc, earlyRead>>

Destroy(i) ==
    /\ Live(i)
    /\ objs' = [objs EXCEPT ![i] = Dead]
    /\ obs' = [obs EXCEPT ![i] = NoObs]
    /\ Forget(i)
    /\ UNCHANGED <<useBFD, useDWARF, index, builds, pc, mutex, texc, earlyRead>>

Init ==
    /\ useBFD \in BOOLEAN
    /\ useDWARF \in BOOLEAN
    /\ objs = [i \in Ids |-> Dead]
    /\ obs = [i \in Ids |-> NoObs]
    /\ ret = NoRet
    /\ lastCopy = NoCopy
    /\ index = "unbuilt"
    /\ builds = 0
    /\ pc = [t \in Threads |-> "idle"]
    /\ mutex = NoThread
    /\ texc = [t \in Threads |-> Uninitialised]
    /\ earlyRead = FALSE

Next ==
    \/ \E i \in Ids : Construct(i)
    \/ \E i \in Ids, j \in Ids : Copy(i, j)
    \/ \E i \in Ids, j \in Ids : Assign(i, j)
    \/ \E i \in Ids : What(i)
    \/ \E i \in Ids : Where(i)
    \/ \E i \in Ids : Destroy(i)

Spec == Init /\ [][Next]_vars

-----------------------------------------------------------------------------
(* Concurrent first use of the debug-information index: each thread throws *)
(* its own exception and calls where(); trace() builds the index once      *)
(* under a lock, checking before and after taking it.                      *)

NeedsBuildAlways(idx) == TRUE

\* the test made before taking the lock and again after taking it
NeedsBuild(idx) == idx # "built"

Throw(t) ==
    /\ pc[t] = "idle"
    /\ \E d \in 0..MaxDepth :
         texc' = [texc EXCEPT ![t] = tracer_ctor(Backend, DefaultMaxFrames, StackAt(d))]
    /\ pc' = [pc EXCEPT ![t] = "check"]
    /\ UNCHANGED <<useBFD, useDWARF, objs, obs, ret, lastCopy, index, builds, mutex, earlyRead>>

FirstCheck(t) ==
    /\ pc[t] = "check"
    /\ pc' = [pc EXCEPT ![t] = IF index # "built" THEN "lock" ELSE "resolve"]
    /\ UNCHANGED <<useBFD, useDWARF, objs, obs, ret, lastCopy, index, builds, mutex, texc, earlyRead>>

Lock(t) ==
    /\ pc[t] = "lock"
    /\ mutex = NoThread
    /\ mutex' = t
    /\ pc' = [pc EXCEPT ![t] = "recheck"]
    /\ UNCHANGED <<useBFD, useDWARF, objs, obs, ret, lastCopy, index, builds, texc, earlyRead>>

SecondCheck(t) ==
    /\ pc[t] = "recheck"
    /\ pc' = [pc EXCEPT ![t] = IF NeedsBuild(index) THEN "build" ELSE "unlock"]
    /\ UNCHANGED <<useBFD, useDWARF, objs, obs, ret, lastCopy, index, builds, mutex, texc, earlyRead>>

BuildBegin(t) ==
    /\ pc[t] = "build"
    /\ index' = "building"
    /\ pc' = [pc EXCEPT ![t] = "building"]
    /\ UNCHANGED <<useBFD, useDWARF, objs, obs, ret, lastCopy, builds, mutex, texc, earlyRead>>

BuildEnd(t) ==
    /\ pc[t] = "building"
    /\ index' = "built"
    /\ builds' = builds + 1
    /\ pc' = [pc EXCEPT ![t] = "unlock"]
    /\ UNCHANGED <<useBFD, useDWARF, objs, obs, ret, lastCopy, mutex, texc, earlyRead>>

Unlock(t) ==
    /\ pc[t] = "unlock"
    /\ mutex' = NoThread
    /\ pc' = [pc EXCEPT ![t] = "resolve"]
    /\ UNCHANGED <<useBFD, useDWARF, objs, obs, ret, lastCopy, index, builds, texc, earlyRead>>

Resolve(t) ==
    /\ pc[t] = "resolve"
    /\ earlyRead' = (earlyRead \/ index # "built")
    /\ pc' = [pc EXCEPT ![t] = "done"]
    /\ UNCHANGED <<useBFD, useDWARF, objs, obs, ret, lastCopy, index, builds, mutex, texc>>

Caught(t) ==
    /\ pc[t] = "done"
    /\ texc' = [texc EXCEPT ![t] = Uninitialised]
    /\ pc' = [pc EXCEPT ![t] = "idle"]
    /\ UNCHANGED <<useBFD, useDWARF, objs, obs, ret, lastCopy, index, builds, mutex, earlyRead>>

InitMT == Init /\ (useBFD \/ useDWARF)

NextMT ==
    \/ \E t \in Threads : Throw(t)
    \/ \E t \in Threads : FirstCheck(t)
    \/ \E t \in Threads : Lock(t)
    \/ \E t \in Threads : SecondCheck(t)
    \/ \E t \in Threads : BuildBegin(t)
    \/ \E t \in Threads : BuildEnd(t)
    \/ \E t \in Threads : Unlock(t)
    \/ \E t \in Threads : Resolve(t)
    \/ \E t \in Threads : Caught(t)

SpecMT == InitMT /\ [][NextMT]_vars

-----------------------------------------------------------------------------
(* The properties *)

Sentinel == << <<"Tracing disabled">> >>
Queried(i) == Live(i) /\ obs[i].where # NoText
IsRich(t) == t.type \in {"bfd_tracer", "dwarf_tracer"}

C2_WhatIsConstructorMessage ==
    (ret # NoRet /\ objs[ret.id].kind \in (RuntimeKinds \cup LogicKinds)) =>
        ret.text = obs[ret.id].arg

Retained(t) == IF IsRich(t) THEN t.frames ELSE 0

\* C5 as stated: under every backend trace(skip) renders exactly
\* max(0, n - skip) lines, so nothing when skip >= n.
C5_LineCountEveryBackend ==
    \A i \in Ids : Live(i) =>
        \A skip \in 0..MaxSkip :
            Len(tracer_trace(objs[i].tracer, skip)) = Max(0, Retained(objs[i].tracer) - skip)

\* C5 as amended: under bfd_tracer and dwarf_tracer trace(skip) renders
\* exactly max(0, n - skip) lines, line k being the frame of index skip + k,
\* innermost first; under dummy_tracer, which holds no frames, trace(skip) is
\* the one line "Tracing disabled" for every skip.
C5_LineCountRichSentinelDummy ==
    \A i \in Ids : Live(i) =>
        \A skip \in 0..MaxSkip :
            LET t == objs[i].tracer
                text == tracer_trace(t, skip)
            IN  IF IsRich(t)
                THEN /\ Len(text) = Max(0, t.frames - skip)
                     /\ \A k \in 1..Len(text) : text[k] = render_frame(t.tbuf[skip + k])
                ELSE text = Sentinel

C7_OneBackendByPriority ==
    /\ [](\A i \in Ids : Live(i) =>
            /\ useBFD => objs[i].tracer.type = "bfd_tracer"
            /\ (~useBFD /\ useDWARF) => objs[i].tracer.type = "dwarf_tracer"
            /\ (~useBFD /\ ~useDWARF) => objs[i].tracer.type = "dummy_tracer")
    /\ [][/\ useBFD' = useBFD /\ useDWARF' = useDWARF
          /\ \A i \in Ids : (Live(i) /\ Live(i)') =>
                objs'[i].tracer.type = objs[i].tracer.type]_vars

\* C8: every instance of every kind has had its tracer constructed, so its
\* frames were captured, from construction on and so before any where(); the
\* captured frames are the innermost frames of one stack.
C8_CapturedAtConstruction ==
    \A i \in Ids : Live(i) =>
        LET t == objs[i].tracer
        IN  /\ t.type # "uninitialised"
            /\ IsRich(t) =>
                /\ t.frames = Len(t.tbuf)
                /\ t.frames <= Max(0, t.maxframes)
                /\ t.frames > 0 => t.tbuf = SubSeq(StackAt(t.tbuf[1]), 1, t.frames)

\* C9: no step changes the message or the captured frames of an instance
\* that lives before and after it.
C9_ImmutableAfterConstruction ==
    [][\A i \in Ids : (Live(i) /\ Live(i)') => objs'[i] = objs[i]]_vars

\* C10: the index is built at most once, is built exactly once when it is
\* built, and no resolution reads it before its build has completed.
C10_IndexBuiltOnce ==
    /\ builds <= 1
    /\ (index = "built") <=> (builds = 1)
    /\ ~earlyRead

-----------------------------------------------------------------------------
(* Reachable cases of the properties *)

\* a trace of a rich backend with frames left after the skip, and a skip of
\* at least one frame
W5_RichTraceWithSkip ==
    \E i \in Ids : /\ Queried(i) /\ IsRich(objs[i].tracer)
                   /\ objs[i].tracer.frames > WhereSkip /\ WhereSkip >= 1

\* both flags defined, an instance constructed and queried
W7_BothFlagsInstanceQueried ==
    useBFD /\ useDWARF /\ \E i \in Ids : Queried(i)

\* a leaf of logic_error, constructed with frames captured and queried
W8_LogicLeafQueried ==
    \E i \in Ids : /\ Queried(i) /\ objs[i].kind \in LogicKinds \ {"logic_error"}
                   /\ IsRich(objs[i].tracer) /\ objs[i].tracer.frames > 0

\* one thread builds the index while another, which also found it unbuilt,
\* waits for the lock
W10_ConcurrentFirstUse ==
    \E t \in Threads, u \in Threads :
        t # u /\ pc[t] = "building" /\ pc[u] = "lock"

=============================================================================
